---- MODULE Spec2Model ----
(***************************************************************************)
(* timesignal: EventSignal (models/signal.py) and EventOrchestra           *)
(* (models/orchestra.py) as a state machine.                               *)
(*                                                                         *)
(* A datetime is a whole number of clock ticks since the epoch.  A float   *)
(* is an exact rational <<numerator, denominator>> in lowest terms with a  *)
(* positive denominator: float rounding is not modelled, every number the  *)
(* model handles is far inside the range where doubles are exact enough    *)
(* for the tick to survive timestamp()/fromtimestamp().                    *)
(***************************************************************************)
EXTENDS Integers, Sequences, FiniteSets, TLC

VARIABLES data, interpolation, interpolate, elements, result

vars == <<data, interpolation, interpolate, elements, result>>

----------------------------------------------------------------------------
(* Bounds of the model *)

\* samples are stamped on the whole seconds 0..MaxSecond
MaxSecond == 1
\* a batch handed to the values setter holds at most MaxLen pairs
MaxLen == 2
\* ticks per second: the resolution of a datetime
TicksPerSecond == 2

\* the datetimes of samples: whole seconds, as in signal.test
SampleTimes == {i * TicksPerSecond : i \in 0..MaxSecond}

\* the datetimes a query is made at: every tick from the first second to
\* one tick past the last
Times == 0..(MaxSecond * TicksPerSecond + 1)

Signals == {"es1", "es2", "es3"}

Orchestras == {"eo0", "eo1", "eo2", "eo3", "eo4"}

\* interpolation kinds handed to the setter; "bogus" stands for any tag
\* scipy's interp1d does not know
Kinds == {"linear", "slinear", "bogus"}

----------------------------------------------------------------------------
(* Python values and outcomes of a call *)

None == [kind |-> "None"]

Float(r) == [kind |-> "float", r |-> r]

Datetime(t) == [kind |-> "datetime", t |-> t]

Dict(f) == [kind |-> "dict", items |-> f]

Return(v) == [ok |-> TRUE, val |-> v]

Raise(e, m) == [ok |-> FALSE, exc |-> e, msg |-> m]

\* the message of both _check_time_index methods
OutOfBounds == "Time index is out of bounds."

----------------------------------------------------------------------------
(* Exact rational arithmetic standing for float64 *)

Abs(n) == IF n < 0 THEN -n ELSE n

RECURSIVE GCD(_, _)
GCD(a, b) == IF b = 0 THEN a ELSE GCD(b, a % b)

\* n/d in lowest terms, d > 0
Rat(n, d) == LET g == GCD(Abs(n), d) IN <<n \div g, d \div g>>

RatLT(a, b) == a[1] * b[2] < b[1] * a[2]

RatAdd(a, b) == Rat(a[1] * b[2] + b[1] * a[2], a[2] * b[2])

RatSub(a, b) == Rat(a[1] * b[2] - b[1] * a[2], a[2] * b[2])

RatMul(a, b) == Rat(a[1] * b[1], a[2] * b[2])

\* b is not zero
RatDiv(a, b) ==
    IF b[1] > 0 THEN Rat(a[1] * b[2], a[2] * b[1])
    ELSE Rat(-(a[1] * b[2]), a[2] * (-b[1]))

----------------------------------------------------------------------------
(* EventSignal: time encoding *)

\* dt.timestamp(): seconds since the epoch as a float
encode_datetime(dt) == Rat(dt, TicksPerSecond)

\* datetime.fromtimestamp(ts): the tick nearest to ts seconds, a tie going
\* to the even tick
decode_datetime(ts) ==
    LET n == ts[1] * TicksPerSecond
        q == n \div ts[2]
        r == n % ts[2]
    IN  IF 2 * r < ts[2] THEN q
        ELSE IF 2 * r > ts[2] THEN q + 1
        ELSE IF q % 2 = 0 THEN q ELSE q + 1

----------------------------------------------------------------------------
(* scipy.interpolate.interp1d as the signal uses it:                       *)
(* kind=value, copy=False, bounds_error=True, assume_sorted=True           *)

NoInterpolate == [isNone |-> TRUE, x |-> <<>>, y |-> <<>>, kind |-> ""]

SupportedKinds == {"linear", "slinear"}

HasDuplicates(x) == \E i \in 1..(Len(x) - 1) : x[i] = x[i + 1]

\* the fewest samples interp1d accepts: order + 1 for a spline kind
MinEntries(kind) == IF kind = "slinear" THEN 2 ELSE 1

\* interp1d(x, y, kind=kind, ...): the evaluator, holding the arrays it was
\* built from, or the exception of the constructor
interp1d(x, y, kind) ==
    IF kind \notin SupportedKinds
    THEN Raise("NotImplementedError", "kind is unsupported")
    ELSE IF kind = "slinear" /\ HasDuplicates(x)
    THEN Raise("ValueError", "Expect x to not have duplicates")
    ELSE IF Len(x) < MinEntries(kind)
    THEN Raise("ValueError", "x and y arrays must have more entries")
    ELSE Return([isNone |-> FALSE, x |-> x, y |-> y, kind |-> kind])

\* the last index j with x[j] <= v, 0 when there is none (numpy's
\* binary_search_with_guess on a non-decreasing x)
SearchLast(x, v) ==
    LET below == {j \in 1..Len(x) : ~RatLT(v, x[j])}
    IN  IF below = {} THEN 0 ELSE CHOOSE j \in below : \A k \in below : k <= j

\* numpy.interp at a point inside [x[1], x[Len(x)]]: the sample itself at
\* a sample's abscissa and at the last sample, the chord elsewhere
SlopeInterp(x, y, v) ==
    LET j == SearchLast(x, v)
    IN  IF j = Len(x) THEN y[j]
        ELSE IF x[j] = v THEN y[j]
        ELSE RatAdd(y[j],
                    RatMul(RatDiv(RatSub(y[j + 1], y[j]), RatSub(x[j + 1], x[j])),
                           RatSub(v, x[j])))

\* calling the evaluator at one abscissa: bounds_error=True
CallInterpolate(f, v) ==
    IF RatLT(v, f.x[1])
    THEN Raise("ValueError", "A value in x_new is below the interpolation range.")
    ELSE IF RatLT(f.x[Len(f.x)], v)
    THEN Raise("ValueError", "A value in x_new is above the interpolation range.")
    ELSE Return(Float(SlopeInterp(f.x, f.y, v)))

----------------------------------------------------------------------------
(* EventSignal: the data array *)

\* _data is None
NoData == [isNone |-> TRUE, x |-> <<>>, y |-> <<>>]

\* a 2xN array, rows x (encoded time) and y (value); with no column it is
\* the array of shape (0,) that np.array([]).T yields
Array(x, y) == [isNone |-> FALSE, x |-> x, y |-> y]

\* np.array([(encode_datetime(dt), float(val)) for dt, val in values]).T
ToArray(values) ==
    Array([i \in 1..Len(values) |-> encode_datetime(values[i][1])],
          [i \in 1..Len(values) |-> Rat(values[i][2], 1)])

\* x.argsort() on a short array (an insertion sort: equal keys keep their
\* input order): the indices of x[1..n] in non-decreasing order of x
RECURSIVE ArgsortUpTo(_, _)
ArgsortUpTo(x, n) ==
    IF n = 0 THEN <<>>
    ELSE LET p == ArgsortUpTo(x, n - 1)
             k == Cardinality({j \in 1..Len(p) : ~RatLT(x[n], x[p[j]])})
         IN  SubSeq(p, 1, k) \o <<n>> \o SubSeq(p, k + 1, Len(p))

argsort(x) == ArgsortUpTo(x, Len(x))

\* a[:, p]: both rows permuted by p
TakeColumns(a, p) ==
    Array([i \in 1..Len(p) |-> a.x[p[i]]], [i \in 1..Len(p) |-> a.y[p[i]]])

\* the sort applied to the time row alone: the value row keeps its input order
SortTimesOnly(a) == Array(TakeColumns(a, argsort(a.x)).x, a.y)

\* self._data[:, self._data[0, :].argsort()]
SortByTime(a) == TakeColumns(a, argsort(a.x))

----------------------------------------------------------------------------
(* EventSignal: properties and queries *)

\* a signal is named here by its fields: d is _data, f is _interpolate

\* start failing on a signal without data instead of returning None
EventSignal_start_raising(d) ==
    IF d.isNone \/ Len(d.x) = 0 THEN Raise("ValueError", "no samples")
    ELSE Return(Datetime(decode_datetime(d.x[1])))

EventSignal_start(d) ==
    IF d.isNone THEN Return(None)
    ELSE IF Len(d.x) = 0 THEN Raise("IndexError", "too many indices for array")
    ELSE Return(Datetime(decode_datetime(d.x[1])))

EventSignal_end(d) ==
    IF d.isNone THEN Return(None)
    ELSE IF Len(d.x) = 0 THEN Raise("IndexError", "too many indices for array")
    ELSE Return(Datetime(decode_datetime(d.x[Len(d.x)])))

\* time_index < self.start or time_index > self.end, then the raise
EventSignal_check_time_index(d, t) ==
    LET st == EventSignal_start(d)
        en == EventSignal_end(d)
    IN  IF ~st.ok THEN st
        ELSE IF st.val = None
        THEN Raise("TypeError", "'<' not supported between datetime and NoneType")
        ELSE IF t < st.val.t THEN Raise("ValueError", OutOfBounds)
        ELSE IF ~en.ok THEN en
        ELSE IF en.val = None
        THEN Raise("TypeError", "'>' not supported between datetime and NoneType")
        ELSE IF t > en.val.t THEN Raise("ValueError", OutOfBounds)
        ELSE Return(None)

\* self._interpolate((encode_datetime(t),)) for the one index
interpolate_datetimes(f, t) ==
    IF f.isNone
    THEN Raise("TypeError", "'NoneType' object is not callable")
    ELSE CallInterpolate(f, encode_datetime(t))

EventSignal_get_value_at_datetime(d, f, t) ==
    LET chk == EventSignal_check_time_index(d, t)
    IN  IF ~chk.ok THEN chk ELSE interpolate_datetimes(f, t)

\* signal[t] on the signal named s
EventSignal_getitem(s, t) ==
    EventSignal_get_value_at_datetime(data[s], interpolate[s], t)

----------------------------------------------------------------------------
(* EventSignal: the two setters *)

\* the setter building an evaluator only while the signal has none
RebuildOnce(d, value, old) ==
    IF d.isNone \/ ~old.isNone THEN [interpolate |-> old, out |-> Return(None)]
    ELSE IF Len(d.x) = 0
    THEN [interpolate |-> old,
          out |-> Raise("IndexError", "too many indices for array")]
    ELSE LET f == interp1d(d.x, d.y, value)
         IN  IF f.ok THEN [interpolate |-> f.val, out |-> Return(None)]
             ELSE [interpolate |-> old, out |-> f]

\* the body of the interpolation setter after the tag is stored: what
\* _interpolate becomes and how the setter ends
Rebuild(d, value, old) ==
    IF d.isNone THEN [interpolate |-> old, out |-> Return(None)]
    ELSE IF Len(d.x) = 0
    THEN [interpolate |-> old,
          out |-> Raise("IndexError", "too many indices for array")]
    ELSE LET f == interp1d(d.x, d.y, value)
         IN  IF f.ok THEN [interpolate |-> f.val, out |-> Return(None)]
             ELSE [interpolate |-> old, out |-> f]

\* what _data is when the values setter ends (the assignment of line 133
\* stands when line 139 raises on the array of shape (0,))
NewData(values) ==
    IF Len(values) = 0 THEN ToArray(values) ELSE SortByTime(ToArray(values))

\* signal.interpolation = value
SetInterpolation(s, value) ==
    LET b == Rebuild(data[s], value, interpolate[s])
    IN  /\ interpolation' = [interpolation EXCEPT ![s] = value]
        /\ interpolate' = [interpolate EXCEPT ![s] = b.interpolate]
        /\ result' = [op |-> "interpolation.setter", obj |-> s, arg |-> value,
                      out |-> b.out]
        /\ UNCHANGED <<data, elements>>

\* signal.values = values
SetValues(s, values) ==
    LET d == NewData(values)
        b == Rebuild(d, interpolation[s], interpolate[s])
    IN  /\ data' = [data EXCEPT ![s] = d]
        /\ interpolate' = [interpolate EXCEPT ![s] = b.interpolate]
        /\ result' = [op |-> "values.setter", obj |-> s, arg |-> values,
                      out |-> b.out]
        /\ UNCHANGED <<interpolation, elements>>

\* signal[t]
GetValueAtDatetime(s, t) ==
    /\ result' = [op |-> "EventSignal.__getitem__", obj |-> s, arg |-> t,
                  out |-> EventSignal_getitem(s, t)]
    /\ UNCHANGED <<data, interpolation, interpolate, elements>>

\* signal.start
ReadStart(s) ==
    /\ result' = [op |-> "EventSignal.start", obj |-> s, arg |-> None,
                  out |-> EventSignal_start(data[s])]
    /\ UNCHANGED <<data, interpolation, interpolate, elements>>

\* signal.end
ReadEnd(s) ==
    /\ result' = [op |-> "EventSignal.end", obj |-> s, arg |-> None,
                  out |-> EventSignal_end(data[s])]
    /\ UNCHANGED <<data, interpolation, interpolate, elements>>

----------------------------------------------------------------------------
(* Inputs *)

\* sequences over S of length at most n
RECURSIVE SeqsUpTo(_, _)
SeqsUpTo(S, n) ==
    IF n = 0 THEN {<<>>}
    ELSE LET shorter == SeqsUpTo(S, n - 1)
         IN  shorter \cup {Append(q, e) : q \in shorter, e \in S}

\* the pairs of signal.test: the i-th datetime carries the value i - 1
Batch(ts) == [i \in 1..Len(ts) |-> <<ts[i], i - 1>>]

Batches == {Batch(ts) : ts \in SeqsUpTo(SampleTimes, MaxLen)}

----------------------------------------------------------------------------
(* EventOrchestra *)

Sig(id) == [type |-> "EventSignal", id |-> id]

Orc(id) == [type |-> "EventOrchestra", id |-> id]

\* the element dicts the orchestras are constructed with, in insertion
\* order: eo1 and eo2 as in orchestra.test, around them an empty orchestra,
\* a third level and an orchestra of one signal
TestElements ==
    [o \in Orchestras |->
        CASE o = "eo0" -> <<>>
          [] o = "eo1" -> << <<"es1", Sig("es1")>>, <<"es2", Sig("es2")>> >>
          [] o = "eo2" -> << <<"eo1", Orc("eo1")>>, <<"es3", Sig("es3")>> >>
          [] o = "eo3" -> << <<"eo2", Orc("eo2")>>, <<"eo4", Orc("eo4")>> >>
          [] o = "eo4" -> << <<"es3", Sig("es3")>> >>]

RECURSIVE EventOrchestra_bound(_, _)

\* element.start or element.end of element i, as the generator inside
\* min()/max() evaluates it: a nested orchestra's is its own min or max
ElementBound(o, i, which) ==
    LET e == elements[o][i][2]
    IN  IF e.type = "EventOrchestra" THEN EventOrchestra_bound(e.id, which)
        ELSE IF which = "start" THEN EventSignal_start(data[e.id])
        ELSE EventSignal_end(data[e.id])

\* max() comparing the way min() does
BetterIsEarlier(which, item, current) == item.t < current.t

\* item < current inside min(), item > current inside max()
Better(which, item, current) ==
    IF which = "start" THEN item.t < current.t ELSE item.t > current.t

\* min()/max() over the generator from element i on, current being the
\* best of the elements before it: an element's exception leaves the call,
\* and so does the TypeError of comparing with None
RECURSIVE FoldBound(_, _, _, _)
FoldBound(o, which, i, current) ==
    IF i > Len(elements[o]) THEN Return(current)
    ELSE LET item == ElementBound(o, i, which)
         IN  IF ~item.ok THEN item
             ELSE IF item.val = None \/ current = None
             THEN Raise("TypeError", "comparison not supported with NoneType")
             ELSE FoldBound(o, which, i + 1,
                            IF Better(which, item.val, current) THEN item.val
                            ELSE current)

\* min(element.start for ...) for "start", max(element.end for ...) for "end"
EventOrchestra_bound(o, which) ==
    IF Len(elements[o]) = 0
    THEN Raise("ValueError", "arg is an empty sequence")
    ELSE LET first == ElementBound(o, 1, which)
         IN  IF ~first.ok THEN first ELSE FoldBound(o, which, 2, first.val)

EventOrchestra_start(o) == EventOrchestra_bound(o, "start")

EventOrchestra_end(o) == EventOrchestra_bound(o, "end")

\* EventOrchestra._check_time_index: no method of the class calls it
EventOrchestra_check_time_index(o, t) ==
    LET st == EventOrchestra_start(o)
        en == EventOrchestra_end(o)
    IN  IF ~st.ok THEN st
        ELSE IF st.val = None
        THEN Raise("TypeError", "'<' not supported between datetime and NoneType")
        ELSE IF t < st.val.t THEN Raise("ValueError", OutOfBounds)
        ELSE IF ~en.ok THEN en
        ELSE IF en.val = None
        THEN Raise("TypeError", "'>' not supported between datetime and NoneType")
        ELSE IF t > en.val.t THEN Raise("ValueError", OutOfBounds)
        ELSE Return(None)

\* a bare except: pass
SwallowedAny(r) == TRUE

\* except ValueError: pass
Swallowed(r) == r.exc = "ValueError"

RECURSIVE EventOrchestra_get_dict_at_datetime(_, _)

\* signal[time_index] on an element: EventSignal.__getitem__ or
\* EventOrchestra.__getitem__
Element_getitem(e, t) ==
    IF e.type = "EventSignal" THEN EventSignal_getitem(e.id, t)
    ELSE EventOrchestra_get_dict_at_datetime(e.id, t)

\* the pairs the generator yields over elements 1..n, or the exception
\* that leaves it
RECURSIVE YieldedUpTo(_, _, _)
YieldedUpTo(o, t, n) ==
    IF n = 0 THEN Return(<<>>)
    ELSE LET before == YieldedUpTo(o, t, n - 1)
             value == Element_getitem(elements[o][n][2], t)
         IN  IF ~before.ok THEN before
             ELSE IF value.ok
             THEN Return(Append(before.val, <<elements[o][n][1], value.val>>))
             ELSE IF Swallowed(value) THEN before
             ELSE value

EventOrchestra_get_name_value_pairs_at_datetime(o, t) ==
    YieldedUpTo(o, t, Len(elements[o]))

\* a nested mapping stored without its entries
StoredEmptied(value, t) == IF value.kind = "dict" THEN Dict(<<>>) ELSE value

\* value.get_dict_at_datetime(time_index) if isinstance(value,
\* EventOrchestra) else value: a yielded value is a float or a dict
Stored(value, t) ==
    IF value.kind = "EventOrchestra"
    THEN EventOrchestra_get_dict_at_datetime(value.id, t).val
    ELSE value

\* d = {}; d[name] = ... for each yielded pair
FillDict(pairs, t) ==
    Dict([n \in {pairs[i][1] : i \in 1..Len(pairs)} |->
            LET i == CHOOSE i \in 1..Len(pairs) : pairs[i][1] = n
            IN  Stored(pairs[i][2], t)])

EventOrchestra_get_dict_at_datetime(o, t) ==
    LET pairs == EventOrchestra_get_name_value_pairs_at_datetime(o, t)
    IN  IF ~pairs.ok THEN pairs ELSE Return(FillDict(pairs.val, t))

EventOrchestra_getitem(o, t) == EventOrchestra_get_dict_at_datetime(o, t)

\* orchestra[t]
GetDictAtDatetime(o, t) ==
    /\ result' = [op |-> "EventOrchestra.__getitem__", obj |-> o, arg |-> t,
                  out |-> EventOrchestra_getitem(o, t)]
    /\ UNCHANGED <<data, interpolation, interpolate, elements>>

\* orchestra.start
ReadOrchestraStart(o) ==
    /\ result' = [op |-> "EventOrchestra.start", obj |-> o, arg |-> None,
                  out |-> EventOrchestra_start(o)]
    /\ UNCHANGED <<data, interpolation, interpolate, elements>>

\* orchestra.end
ReadOrchestraEnd(o) ==
    /\ result' = [op |-> "EventOrchestra.end", obj |-> o, arg |-> None,
                  out |-> EventOrchestra_end(o)]
    /\ UNCHANGED <<data, interpolation, interpolate, elements>>

\* the batches the orchestra's signals are loaded with: one sample, or the
\* two ends of a span of seconds
OrchestraBatches ==
    {Batch(<<a>>) : a \in SampleTimes}
        \cup {Batch(<<w[1], w[2]>>) :
                w \in {v \in SampleTimes \X SampleTimes : v[1] < v[2]}}

\* the kinds es1 is retuned with under the orchestras
OrchestraKinds == {"linear", "bogus"}

----------------------------------------------------------------------------
(* The state machine *)

\* A query changes no object, so the object states a query can meet are
\* the ones setter calls alone reach: a run is a sequence of setter calls
\* and then one query.
Building == result.op \in {"__init__", "values.setter", "interpolation.setter"}

Init ==
    /\ data = [s \in Signals |-> NoData]
    /\ interpolation = [s \in Signals |-> "linear"]
    /\ interpolate = [s \in Signals |-> NoInterpolate]
    /\ elements = TestElements
    /\ result = [op |-> "__init__", obj |-> "", arg |-> None, out |-> Return(None)]

\* one signal, every batch and every kind
Next ==
    \/ \E values \in Batches : Building /\ SetValues("es1", values)
    \/ \E value \in Kinds : Building /\ SetInterpolation("es1", value)
    \/ \E t \in Times : Building /\ GetValueAtDatetime("es1", t)
    \/ Building /\ ReadStart("es1")
    \/ Building /\ ReadEnd("es1")

Spec == Init /\ [][Next]_vars

\* the orchestras over their three signals
NextOrchestra ==
    \/ \E s \in Signals, values \in OrchestraBatches :
            Building /\ SetValues(s, values)
    \/ \E value \in OrchestraKinds : Building /\ SetInterpolation("es1", value)
    \/ \E o \in Orchestras, t \in Times : Building /\ GetDictAtDatetime(o, t)
    \/ \E o \in Orchestras : Building /\ ReadOrchestraStart(o)
    \/ \E o \in Orchestras : Building /\ ReadOrchestraEnd(o)
    \/ \E s \in Signals : Building /\ ReadStart(s)
    \/ \E s \in Signals : Building /\ ReadEnd(s)

SpecOrchestra == Init /\ [][NextOrchestra]_vars

----------------------------------------------------------------------------
(* Properties of one signal, checked under Spec *)

HoldsSamples(d) == ~d.isNone /\ Len(d.x) > 0

\* the datetimes of the samples a data array holds
SampleTicks(d) == {decode_datetime(d.x[i]) : i \in 1..Len(d.x)}

Least(S) == CHOOSE m \in S : \A n \in S : m <= n

Greatest(S) == CHOOSE m \in S : \A n \in S : n <= m

\* C1: for a signal holding samples that span [start, end], signal[t] fails
\* with the out-of-bounds error for every t < start and every t > end and
\* returns a float for every t with start <= t <= end.
C1_ClosedDomain ==
    (result.op = "EventSignal.__getitem__" /\ HoldsSamples(data[result.obj])) =>
        LET d == data[result.obj]
            t == result.arg
        IN  IF t < Least(SampleTicks(d)) \/ t > Greatest(SampleTicks(d))
            THEN result.out = Raise("ValueError", OutOfBounds)
            ELSE result.out.ok /\ result.out.val.kind = "float"

\* C5: the values setter called with exactly one pair (t0, v0) on a signal
\* whose kind is linear ends without error, leaves start = end = t0 and
\* makes signal[t0] return v0.
C5_SingleSample ==
    (/\ result.op = "values.setter"
     /\ Len(result.arg) = 1
     /\ interpolation[result.obj] = "linear") =>
        LET s == result.obj
            t0 == result.arg[1][1]
            v0 == result.arg[1][2]
        IN  /\ result.out = Return(None)
            /\ EventSignal_start(data[s]) = Return(Datetime(t0))
            /\ EventSignal_end(data[s]) = Return(Datetime(t0))
            /\ EventSignal_getitem(s, t0) = Return(Float(Rat(v0, 1)))

\* a one-sample batch has replaced an earlier, different batch under linear
C5_SingleSampleBuilt ==
    /\ result.op = "values.setter"
    /\ Len(result.arg) = 1
    /\ result.arg[1][1] > 0
    /\ interpolation[result.obj] = "linear"
    /\ result.out.ok
    /\ interpolate[result.obj].x = <<encode_datetime(result.arg[1][1])>>

Orders(n) ==
    {p \in [1..n -> 1..n] : \A i, j \in 1..n : p[i] = p[j] => i = j}

Permuted(values, p) == [i \in 1..Len(values) |-> values[p[i]]]

NonDecreasing(x) == \A i \in 1..(Len(x) - 1) : ~RatLT(x[i + 1], x[i])

\* the columns of d are the pairs of values, each value beside its own time
PairsKept(values, d) ==
    /\ Len(d.x) = Len(values)
    /\ Len(d.y) = Len(values)
    /\ \E p \in Orders(Len(values)) :
          \A i \in 1..Len(values) :
              /\ d.x[i] = encode_datetime(values[p[i]][1])
              /\ d.y[i] = Rat(values[p[i]][2], 1)

DistinctTimes(values) ==
    \A i, j \in 1..Len(values) : values[i][1] = values[j][1] => i = j

\* what a caller can read off a signal with data d and evaluator f
Observed(d, f) ==
    [start |-> EventSignal_start(d),
     end |-> EventSignal_end(d),
     at |-> [t \in Times |-> EventSignal_get_value_at_datetime(d, f, t)]]

\* the signal s as the values setter would have left it, had it been handed
\* the batch in the order p
ObservedHad(s, values, p) ==
    LET d == NewData(Permuted(values, p))
    IN  Observed(d, Rebuild(d, interpolation[s], interpolate[s]).interpolate)

C10_EvaluatorCurrent ==
    \A s \in Signals :
        HoldsSamples(data[s]) =>
            interpolate[s] = [isNone |-> FALSE, x |-> data[s].x,
                              y |-> data[s].y, kind |-> interpolation[s]]

----------------------------------------------------------------------------
(* Properties of the orchestras, checked under SpecOrchestra *)

IsSnapshot == result.op = "EventOrchestra.__getitem__"

ChildName(o, i) == elements[o][i][1]

Child(o, i) == elements[o][i][2]

ChildIndices(o) == 1..Len(elements[o])

\* the samples of signal s span an interval that holds t
Covers(s, t) ==
    /\ HoldsSamples(data[s])
    /\ Least(SampleTicks(data[s])) <= t
    /\ t <= Greatest(SampleTicks(data[s]))

\* the signals at the leaves of the tree under orchestra o
RECURSIVE LeafSignals(_)
LeafSignals(o) ==
    UNION {IF Child(o, i).type = "EventSignal" THEN {Child(o, i).id}
           ELSE LeafSignals(Child(o, i).id) : i \in ChildIndices(o)}

\* the orchestras of the tree under orchestra o, o included
RECURSIVE Nested(_)
Nested(o) ==
    {o} \cup UNION {IF Child(o, i).type = "EventSignal" THEN {}
                    ELSE Nested(Child(o, i).id) : i \in ChildIndices(o)}

\* C2: the snapshot of an orchestra whose children are all signals, each
\* holding samples, holds the name n exactly when the samples of child n
\* span t, the value under n is that signal's signal[t], and the call
\* raises nothing.
C2_FlatSnapshot ==
    (/\ IsSnapshot
     /\ \A i \in ChildIndices(result.obj) :
            /\ Child(result.obj, i).type = "EventSignal"
            /\ HoldsSamples(data[Child(result.obj, i).id])) =>
        LET o == result.obj
            t == result.arg
        IN  /\ result.out.ok
            /\ result.out.val.kind = "dict"
            /\ \A i \in ChildIndices(o) :
                  /\ ChildName(o, i) \in DOMAIN result.out.val.items
                        <=> Covers(Child(o, i).id, t)
                  /\ ChildName(o, i) \in DOMAIN result.out.val.items =>
                        Return(result.out.val.items[ChildName(o, i)])
                            = EventSignal_getitem(Child(o, i).id, t)

\* C3: a snapshot has no entry under the name of a nested orchestra whose
\* own [start, end] does not hold the instant.
C3_NestedOmitted ==
    (IsSnapshot /\ result.out.ok) =>
        \A i \in ChildIndices(result.obj) :
            LET c == Child(result.obj, i)
                t == result.arg
            IN  (/\ c.type = "EventOrchestra"
                 /\ EventOrchestra_check_time_index(c.id, t)
                        = Raise("ValueError", OutOfBounds)) =>
                    ChildName(result.obj, i) \notin DOMAIN result.out.val.items

\* C4: the entry a snapshot holds under the name of a nested orchestra is
\* the mapping that orchestra returns for the same instant.
C4_NestedMirrors ==
    (IsSnapshot /\ result.out.ok) =>
        \A i \in ChildIndices(result.obj) :
            LET c == Child(result.obj, i)
                n == ChildName(result.obj, i)
            IN  (/\ c.type = "EventOrchestra"
                 /\ n \in DOMAIN result.out.val.items) =>
                    Return(result.out.val.items[n])
                        = EventOrchestra_getitem(c.id, result.arg)

\* the snapshot of eo3 holds a value two levels down
C4_ThreeLevelsDeep ==
    /\ IsSnapshot
    /\ result.obj = "eo3"
    /\ result.out.ok
    /\ "eo2" \in DOMAIN result.out.val.items
    /\ "eo1" \in DOMAIN result.out.val.items["eo2"].items
    /\ "es2" \in DOMAIN result.out.val.items["eo2"].items["eo1"].items
    /\ "es1" \notin DOMAIN result.out.val.items["eo2"].items["eo1"].items

\* C6: start of an orchestra with children is the least start, end the
\* greatest end, over its children and, through nested orchestras, over
\* the signals under it; on an orchestra without children both fail.
C6_OrchestraBounds ==
    (result.op \in {"EventOrchestra.start", "EventOrchestra.end"}) =>
        LET o == result.obj
            firsts == {Least(SampleTicks(data[s])) : s \in LeafSignals(o)}
            lasts == {Greatest(SampleTicks(data[s])) : s \in LeafSignals(o)}
        IN  /\ Len(elements[o]) = 0 => ~result.out.ok
            /\ (/\ \A n \in Nested(o) : Len(elements[n]) > 0
                /\ \A s \in LeafSignals(o) : HoldsSamples(data[s])) =>
                    result.out =
                        IF result.op = "EventOrchestra.start"
                        THEN Return(Datetime(Least(firsts)))
                        ELSE Return(Datetime(Greatest(lasts)))

\* the end of eo3 comes from es3, later than the ends of es1 and es2
C6_EndFromLastChild ==
    /\ result.op = "EventOrchestra.end"
    /\ result.obj = "eo3"
    /\ result.out.ok
    /\ \A s \in {"es1", "es2"} :
          /\ HoldsSamples(data[s])
          /\ Greatest(SampleTicks(data[s])) < result.out.val.t

IsBoundRead(ops) == result.op \in ops

SignalBoundOps == {"EventSignal.start", "EventSignal.end"}

OrchestraBoundOps == {"EventOrchestra.start", "EventOrchestra.end"}

\* C7 as stated: start and end of a signal without data fail, and so do
\* start and end of an orchestra above such a signal.
C7_UnloadedBoundsFail ==
    /\ (IsBoundRead(SignalBoundOps) /\ data[result.obj].isNone) => ~result.out.ok
    /\ (/\ IsBoundRead(OrchestraBoundOps)
        /\ \E s \in LeafSignals(result.obj) : data[s].isNone) => ~result.out.ok

\* the bound (start or end, as the call recorded in result reads) of child i
ChildBound(o, i) ==
    ElementBound(o, i, IF result.op = "EventOrchestra.start" THEN "start" ELSE "end")

\* C7 amended: start and end of a signal whose data was never set return
\* None; an orchestra whose only child returns None returns None, and an
\* orchestra of two or more children whose bounds all return, one of them
\* None, fails with a TypeError.
C7_UnloadedBoundsAreNone ==
    /\ (IsBoundRead(SignalBoundOps) /\ data[result.obj].isNone) =>
            result.out = Return(None)
    /\ IsBoundRead(OrchestraBoundOps) =>
            LET o == result.obj
            IN  /\ (/\ Len(elements[o]) = 1
                    /\ ChildBound(o, 1) = Return(None)) =>
                        result.out = Return(None)
                /\ (/\ Len(elements[o]) >= 2
                    /\ \A i \in ChildIndices(o) : ChildBound(o, i).ok
                    /\ \E i \in ChildIndices(o) : ChildBound(o, i) = Return(None)) =>
                        (~result.out.ok /\ result.out.exc = "TypeError")

\* start of eo1 has met the None of es2 after the datetime of es1
C7_NoneBesideDatetime ==
    /\ result.op = "EventOrchestra.start"
    /\ result.obj = "eo1"
    /\ HoldsSamples(data["es1"])
    /\ data["es2"].isNone
    /\ ~result.out.ok

\* what querying child i of o at t gives
ChildItem(o, i, t) == Element_getitem(Child(o, i), t)

Propagating(o, t) ==
    {i \in ChildIndices(o) :
        ~ChildItem(o, i, t).ok /\ ChildItem(o, i, t).exc # "ValueError"}

\* C8: a snapshot never ends with the out-of-bounds ValueError; a child's
\* failure of any other kind ends the snapshot as it is (the first in
\* element order); the children left out of a returned snapshot are those
\* whose query raised the ValueError of an instant out of range.
C8_OnlyOutOfBoundsSwallowed ==
    IsSnapshot =>
        LET o == result.obj
            t == result.arg
        IN  /\ result.out.ok \/ result.out.exc # "ValueError"
            /\ Propagating(o, t) # {} =>
                  result.out = ChildItem(o, Least(Propagating(o, t)), t)
            /\ Propagating(o, t) = {} =>
                  /\ result.out.ok
                  /\ DOMAIN result.out.val.items
                        = {ChildName(o, i) : i \in {j \in ChildIndices(o) :
                                                         ChildItem(o, j, t).ok}}
                  /\ \A i \in ChildIndices(o) :
                        ~ChildItem(o, i, t).ok =>
                            ChildItem(o, i, t).msg \in
                                {OutOfBounds,
                                 "A value in x_new is below the interpolation range.",
                                 "A value in x_new is above the interpolation range."}

\* the snapshot of eo1 left es1 out, out of range, and then ended with the
\* TypeError of es2, which has no data
C8_TypeErrorAfterOmission ==
    /\ IsSnapshot
    /\ result.obj = "eo1"
    /\ HoldsSamples(data["es1"])
    /\ ~Covers("es1", result.arg)
    /\ data["es2"].isNone
    /\ ~result.out.ok
    /\ result.out.exc = "TypeError"

====
